---- MODULE Spec2Model ----
(***************************************************************************)
(* A model of gen.py, the SDL3 header -> Mojo binding generator.           *)
(*                                                                         *)
(* Text is modelled at token level.  A numeric literal is a sequence of    *)
(* one-character strings, a doc comment is a sequence of lines of word     *)
(* tokens, a type or an argument list is a sequence of tokens, and a       *)
(* header is a sequence of chunks (each chunk is one or more whole lines). *)
(* The regular expressions of gen.py become operators over these           *)
(* sequences.                                                              *)
(***************************************************************************)
EXTENDS Integers, Sequences, FiniteSets, TLC

VARIABLES running_enum_value, running_enum_base, pc, src, pos, cur, body, idx, acc, out, hist

vars == <<running_enum_value, running_enum_base, pc, src, pos, cur, body, idx, acc, out, hist>>

(***************************************************************************)
(* Bounds of the model.                                                    *)
(***************************************************************************)
\* longest enum body (member lines) drawn by EnumBodies
MaxMembers == 4
\* longest header (chunks) drawn by ScanHeaders
MaxChunks == 3
\* most parameters of a function prototype drawn by Prototypes
MaxArgs == 2
\* number of headers one run of the program translates under Spec
MaxRuns == 2
\* longest doc comment (lines) drawn by ProseDocs
MaxLines == 5
\* longest struct body (declaration lines) drawn by StructBodies
MaxFields == 2

(***************************************************************************)
(* Python values and helpers.                                              *)
(***************************************************************************)
\* Python's None / the empty string, for a text that is a sequence of tokens
None == <<>>

Last(s) == s[Len(s)]

Front(s) == SubSeq(s, 1, Len(s) - 1)

RECURSIVE Flatten(_)
Flatten(ss) == IF ss = <<>> THEN <<>> ELSE Head(ss) \o Flatten(Tail(ss))

\* the first index i >= from with P(i), or 0
FirstIndex(from, to, P(_)) ==
    IF \E i \in from..to : P(i) THEN CHOOSE i \in from..to : P(i) /\ \A j \in from..(i - 1) : ~P(j) ELSE 0

(***************************************************************************)
(* int(value, 0), str() and hex() on character sequences.                  *)
(***************************************************************************)
HexDigits == <<"0", "1", "2", "3", "4", "5", "6", "7", "8", "9", "a", "b", "c", "d", "e", "f">>

UpperHexDigits == <<"0", "1", "2", "3", "4", "5", "6", "7", "8", "9", "A", "B", "C", "D", "E", "F">>

DigitVal(c) ==
    IF \E i \in 1..16 : HexDigits[i] = c THEN (CHOOSE i \in 1..16 : HexDigits[i] = c) - 1
    ELSE IF \E i \in 1..16 : UpperHexDigits[i] = c THEN (CHOOSE i \in 1..16 : UpperHexDigits[i] = c) - 1
    ELSE Len(HexDigits)

AllDigits(s, base) == s # <<>> /\ \A i \in 1..Len(s) : DigitVal(s[i]) < base

RECURSIVE DigitsValue(_, _)
DigitsValue(s, base) ==
    IF s = <<>> THEN 0 ELSE DigitsValue(Front(s), base) * base + DigitVal(Last(s))

PrefixBase(c) ==
    CASE c \in {"x", "X"} -> 16
      [] c \in {"o", "O"} -> 8
      [] c \in {"b", "B"} -> 2
      [] OTHER -> 0

Parsed(digits, base, wellformed) ==
    IF AllDigits(digits, base) /\ wellformed THEN [ok |-> TRUE, n |-> DigitsValue(digits, base)]
    ELSE [ok |-> FALSE, n |-> 0]

\* a literal with a base prefix has its digits after it; one without is decimal, and
\* a decimal literal that starts with 0 is all zeros
ParseDigits(r, pb) ==
    IF pb # 0 THEN Parsed(SubSeq(r, 3, Len(r)), pb, TRUE)
    ELSE Parsed(r, 10, (Len(r) > 1 /\ r[1] = "0") => \A i \in 1..Len(r) : r[i] = "0")

ParseNat(r) == ParseDigits(r, IF Len(r) >= 2 /\ r[1] = "0" THEN PrefixBase(r[2]) ELSE 0)

Negated(p) == [ok |-> p.ok, n |-> 0 - p.n]

\* int(s, 0): ok = FALSE stands for ValueError
int0(s) == IF s # <<>> /\ s[1] = "-" THEN Negated(ParseNat(Tail(s))) ELSE ParseNat(s)

RECURSIVE NatDigits(_, _)
NatDigits(n, base) ==
    IF n < base THEN <<HexDigits[n + 1]>>
    ELSE Append(NatDigits(n \div base, base), HexDigits[(n % base) + 1])

str(n) == IF n < 0 THEN <<"-">> \o NatDigits(0 - n, 10) ELSE NatDigits(n, 10)

hex(n) == IF n < 0 THEN <<"-", "0", "x">> \o NatDigits(0 - n, 16) ELSE <<"0", "x">> \o NatDigits(n, 16)

\* value.replace('u', '')
RemoveU(s) == SelectSeq(s, LAMBDA c : c # "u")

\* value.startswith('0x')
StartsWith0x(s) == Len(s) >= 2 /\ s[1] = "0" /\ s[2] = "x"

(***************************************************************************)
(* snake_case and capitalize, as tables over the identifiers and words of  *)
(* the model's vocabulary (strings are atomic in TLA+).                    *)
(***************************************************************************)
SnakeTable ==
    [n \in {"SDL_GetError", "SDL_SetTitle", "SDL_Open", "SDL_Log", "SDL_Cb", "userData", "aName", "title", "window", "w"} |->
        CASE n = "SDL_GetError" -> "sdl_get_error"
          [] n = "SDL_SetTitle" -> "sdl_set_title"
          [] n = "SDL_Open" -> "sdl_open"
          [] n = "SDL_Log" -> "sdl_log"
          [] n = "SDL_Cb" -> "sdl_cb"
          [] n = "userData" -> "user_data"
          [] n = "aName" -> "a_name"
          [] OTHER -> n]

snake_case(string) == IF string \in DOMAIN SnakeTable THEN SnakeTable[string] ELSE string

CapTable ==
    [w \in {"true", "the", "a", "get", "set", "open", "safe"} |->
        CASE w = "true" -> "True"
          [] w = "the" -> "The"
          [] w = "a" -> "A"
          [] w = "get" -> "Get"
          [] w = "set" -> "Set"
          [] w = "open" -> "Open"
          [] w = "safe" -> "Safe"]

\* capitalize() of one word
Cap(w) == IF w \in DOMAIN CapTable THEN CapTable[w] ELSE w

\* capitalize() of a text: its first character is upper-cased
capitalize(words) == IF words = <<>> THEN words ELSE <<Cap(Head(words))>> \o Tail(words)

(***************************************************************************)
(* Doc comments.  A raw doc comment is a sequence of lines as they stand   *)
(* after the comment leader " * ": cat is the directive of a line that     *)
(* starts with \cat, ind the number of spaces the line starts with, words  *)
(* its text (punctuation marks are words of their own).  None is the       *)
(* missing comment.  A formatted doc is [kind, lines]: kind "str", or      *)
(* "None", or the exception the formatter raised.                          *)
(***************************************************************************)
Line(cat, ind, words) == [cat |-> cat, ind |-> ind, words |-> words]

OutLine(ind, words) == [ind |-> ind, words |-> words]

IsBlank(l) == l.words = <<>>

Formatted(kind, lines) == [kind |-> kind, lines |-> lines]

\* match_docblock_category: the body of the category at line i runs over the
\* following lines that start with a space and end with a newline
CategoryEnd(lines, i) ==
    LET stop == FirstIndex(i + 1, Len(lines), LAMBDA j : ~(lines[j].ind > 0 /\ j < Len(lines)))
    IN  IF stop = 0 THEN Len(lines) ELSE stop - 1

Reindent(lines, ind) == [j \in 1..Len(lines) |-> OutLine(ind, lines[j].words)]

translate_category(lines, i, k, first_param) ==
    LET tag == lines[i]
        cont == SubSeq(lines, i + 1, k)
        name == snake_case(Head(tag.words))
    IN  CASE tag.cat = "param" ->
               (IF first_param THEN <<OutLine(0, <<"Args:">>)>> ELSE <<>>)
               \o <<OutLine(4, <<name, ":">> \o capitalize(Tail(tag.words)))>>
               \o Reindent(cont, Len(name) + 6)
          [] tag.cat = "returns" ->
               <<OutLine(0, <<>>), OutLine(0, <<"Returns:">>), OutLine(4, capitalize(tag.words))>>
               \o Reindent(cont, 4)
          [] tag.cat = "threadsafety" ->
               <<OutLine(0, <<"Safety:">>), OutLine(4, capitalize(tag.words))>> \o Reindent(cont, 4)
          [] OTHER -> <<>>

\* re.sub(match_docblock_category, translate_category, string)
RECURSIVE SubCategories(_, _, _)
SubCategories(lines, i, first_param) ==
    IF i > Len(lines) THEN <<>>
    ELSE IF lines[i].cat = "" THEN <<OutLine(lines[i].ind, lines[i].words)>> \o SubCategories(lines, i + 1, first_param)
    ELSE translate_category(lines, i, CategoryEnd(lines, i), first_param)
         \o SubCategories(lines, CategoryEnd(lines, i) + 1, first_param /\ lines[i].cat # "param")

\* re.sub(r'\\', r'\\\\', string), on the one word of the vocabulary that holds a backslash
EscapeWord(w) == IF w = "\\0" THEN "\\\\0" ELSE w

EscapeBackslashes(lines) ==
    [j \in 1..Len(lines) |-> OutLine(lines[j].ind, [k \in 1..Len(lines[j].words) |-> EscapeWord(lines[j].words[k])])]

\* string.strip(): leading and trailing blank lines and the first line's indentation go
Strip(lines) ==
    LET first == FirstIndex(1, Len(lines), LAMBDA j : ~IsBlank(lines[j]))
        last == IF first = 0 THEN 0 ELSE CHOOSE j \in first..Len(lines) : ~IsBlank(lines[j]) /\ \A k \in (j + 1)..Len(lines) : IsBlank(lines[k])
        kept == IF first = 0 THEN <<>> ELSE SubSeq(lines, first, last)
    IN  [j \in 1..Len(kept) |-> IF j = 1 THEN OutLine(0, kept[j].words) ELSE kept[j]]

\* re.sub(r'\n *\n *\n', r'\n\n', string): one pass, left to right, the matches not
\* overlapping: two blank lines in a row become one, and the newline that ended the
\* match cannot begin the next one
RECURSIVE CollapseBlank(_, _)
CollapseBlank(lines, i) ==
    IF i > Len(lines) THEN <<>>
    ELSE IF i + 1 < Len(lines) /\ IsBlank(lines[i]) /\ IsBlank(lines[i + 1])
         THEN <<OutLine(0, <<>>)>>
              \o (IF i + 2 <= Len(lines) THEN <<lines[i + 2]>> ELSE <<>>)
              \o CollapseBlank(lines, i + 3)
    ELSE <<lines[i]>> \o CollapseBlank(lines, i + 1)

\* the first sentence gets its period, the first character is upper-cased
Punctuate(lines) ==
    LET blank == FirstIndex(1, Len(lines), LAMBDA j : IsBlank(lines[j]))
        e == IF blank = 0 THEN Len(lines) ELSE blank - 1
    IN  [j \in 1..Len(lines) |->
            LET w1 == IF j = e /\ Last(lines[j].words) # "." THEN Append(lines[j].words, ".") ELSE lines[j].words
            IN  OutLine(lines[j].ind, IF j = 1 THEN capitalize(w1) ELSE w1)]

Sentenced(stripped) ==
    IF stripped = <<>> THEN Formatted("IndexError", <<>>) ELSE Formatted("str", Punctuate(stripped))

format_docstring(string) ==
    IF string = None THEN Formatted("None", <<>>)
    ELSE Sentenced(CollapseBlank(Strip(EscapeBackslashes(SubCategories(string, 1, TRUE))), 1))

\* format_docblock of a comment whose lines carry the leader " * ": the first re.sub
\* finds no category at a line start and removes nothing; the lines after the first
\* are indented by four
IndentRest(doc) ==
    IF doc.kind # "str" THEN doc
    ELSE Formatted("str", [j \in 1..Len(doc.lines) |->
             IF j = 1 THEN doc.lines[j] ELSE OutLine(doc.lines[j].ind + 4, doc.lines[j].words)])

format_docblock(string) ==
    IF string = None THEN Formatted("None", <<>>) ELSE IndentRest(format_docstring(string))

\* re.search(words, doc) within one line
LineHas(l, words) ==
    \E a \in 1..Len(l.words) : a + Len(words) - 1 <= Len(l.words) /\ SubSeq(l.words, a, a + Len(words) - 1) = words

\* a search for "Returns: True on success" on one line
SearchTrueOnSuccessOneLine(doc) ==
    IF doc.kind # "str" THEN "TypeError"
    ELSE IF \E j \in 1..Len(doc.lines) : LineHas(doc.lines[j], <<"Returns:", "True", "on", "success">>)
         THEN "found" ELSE "none"

\* re.search('Returns:\n        True on success', doc)
SearchTrueOnSuccess(doc) ==
    IF doc.kind # "str" THEN "TypeError"
    ELSE IF \E j \in 1..(Len(doc.lines) - 1) :
               /\ doc.lines[j].words # <<>> /\ Last(doc.lines[j].words) = "Returns:"
               /\ doc.lines[j + 1].ind = 8
               /\ Len(doc.lines[j + 1].words) >= 3
               /\ SubSeq(doc.lines[j + 1].words, 1, 3) = <<"True", "on", "success">>
         THEN "found" ELSE "none"

\* re.search(r'on failure;', doc, re.MULTILINE)
SearchOnFailure(doc) ==
    IF doc.kind # "str" THEN "TypeError"
    ELSE IF \E j \in 1..Len(doc.lines) : LineHas(doc.lines[j], <<"on", "failure", ";">>) THEN "found" ELSE "none"

(***************************************************************************)
(* Types, variables and arguments.  A C declarator is a sequence of        *)
(* tokens: an optional "const", the type, one "*" per pointer level, the   *)
(* name.  An emitted type is a sequence of tokens as well: Ptr[T, mut = B] *)
(* is <<"Ptr[">> \o T \o <<", mut = ", B, "]">>.                          *)
(***************************************************************************)
type_map ==
    [t \in {"void", "char", "int", "float", "Uint32", "bool"} |->
        CASE t = "void" -> "NoneType"
          [] t = "char" -> "c_char"
          [] t = "int" -> "c_int"
          [] t = "float" -> "c_float"
          [] t = "Uint32" -> "UInt32"
          [] t = "bool" -> "Bool"]

\* type_map.get(t) or t
TypeMapGet(t) == IF t \in DOMAIN type_map THEN type_map[t] ELSE t

PyBool(b) == IF b THEN "True" ELSE "False"

CountStars(a) == Cardinality({i \in 1..Len(a) : a[i] = "*"})

\* match_return: [const] type *...
match_return(a) ==
    LET mut == a[1] = "const"
        rest == IF mut THEN Tail(a) ELSE a
    IN  [whole |-> a, mut |-> mut, type |-> <<rest[1]>>, ptrs |-> CountStars(rest), name |-> ""]

\* (?P<ptrs>\**): the stars that stand right before the name, counted back from i
RECURSIVE StarsBefore(_, _)
StarsBefore(a, i) == IF i >= 1 /\ a[i] = "*" THEN 1 + StarsBefore(a, i - 1) ELSE 0

\* the groups of match_variable: the greedy type is all the text up to the stars
Variable(a, mut, rest, ptrs) ==
    IF Len(rest) < 2 + ptrs THEN None
    ELSE [whole |-> a, mut |-> mut, type |-> SubSeq(rest, 1, Len(rest) - 1 - ptrs), ptrs |-> ptrs, name |-> Last(rest)]

VariableOf(a, mut, rest) == Variable(a, mut, rest, StarsBefore(rest, Len(rest) - 1))

\* match_variable: [const] type *... name; None when the text has no type and name
match_variable(a) == VariableOf(a, a[1] = "const", IF a[1] = "const" THEN Tail(a) ELSE a)

RECURSIVE WrapPtr(_, _, _)
WrapPtr(result, n, mut) ==
    IF n = 0 THEN result
    ELSE WrapPtr(<<"Ptr[">> \o result \o <<", mut = ", PyBool(~mut), "]">>, n - 1, mut)

\* type_map.get(result) or result: the keys of type_map are types of one word
translate_type(m) ==
    WrapPtr(IF Len(m.type) = 1 THEN <<TypeMapGet(m.type[1])>> ELSE m.type, m.ptrs, m.mut)

translate_return_type(m) == IF m.whole = <<"void">> THEN <<"None">> ELSE translate_type(m)

translate_variable(m) == <<snake_case(m.name), ": ">> \o translate_type(m)

\* translate_argument: "" for void, else the variable (None stands for the TypeError
\* of m['name'] on a text match_variable does not match)
translate_argument(arg) ==
    IF arg = <<"void">> THEN <<>>
    ELSE IF match_variable(arg) = None THEN None
    ELSE translate_variable(match_variable(arg))

ArgumentRaises(f_args) == \E i \in 1..Len(f_args) : f_args[i] # <<"void">> /\ match_variable(f_args[i]) = None

\* re.sub(match_argument, translate_argument, f_args).removeprefix(' '): the arguments
\* are the texts between the commas
RECURSIVE SubArguments(_, _)
SubArguments(f_args, i) ==
    IF i > Len(f_args) THEN <<>>
    ELSE (IF i > 1 THEN <<", ">> ELSE <<>>) \o translate_argument(f_args[i]) \o SubArguments(f_args, i + 1)

Punctuation == {": ", ", ", "Ptr[", "]", ", mut = ", "owned ", ".unsafe_cstr_ptr()"}

\* \w+
IsWord(tok) == tok \notin Punctuation

\* match_string_argument: (\w+): Ptr\[c_char, mut = False\]
StringArgument == <<": ", "Ptr[", "c_char", ", mut = ", "False", "]">>

\* a pattern for any pointer to c_char, whatever its mutability
MatchCharPointerAt(t, i) ==
    /\ i + Len(StringArgument) <= Len(t)
    /\ IsWord(t[i])
    /\ SubSeq(t, i + 1, i + 3) = SubSeq(StringArgument, 1, 3)

MatchStringArgumentAt(t, i) ==
    /\ i + Len(StringArgument) <= Len(t)
    /\ IsWord(t[i])
    /\ SubSeq(t, i + 1, i + Len(StringArgument)) = StringArgument

\* re.sub(match_string_argument, r'owned \1: String', t) when owned, and
\* re.sub(match_string_argument, r'String', t) otherwise
RECURSIVE SubStringArgument(_, _, _)
SubStringArgument(t, i, owned) ==
    IF i > Len(t) THEN <<>>
    ELSE IF MatchStringArgumentAt(t, i)
         THEN (IF owned THEN <<"owned ", t[i], ": ", "String">> ELSE <<"String">>)
              \o SubStringArgument(t, i + Len(StringArgument) + 1, owned)
    ELSE <<t[i]>> \o SubStringArgument(t, i + 1, owned)

\* the lookahead (?=, \w*?:) of match_argument_names
NextArgumentAt(t, j) == t[j] = ", " /\ j + 2 <= Len(t) /\ IsWord(t[j + 1]) /\ t[j + 2] = ": "

\* re.sub(match_argument_names, r'\1\2', t)
RECURSIVE SubArgumentNames(_, _)
SubArgumentNames(t, i) ==
    IF i > Len(t) THEN <<>>
    ELSE LET sep == NextArgumentAt(t, i)
             bare == IsWord(t[i]) /\ i + 1 <= Len(t) /\ t[i + 1] = ": "
             n == IF sep THEN i + 1 ELSE i
             stop == FirstIndex(n + 2, Len(t), LAMBDA j : NextArgumentAt(t, j))
         IN  IF sep \/ bare
             THEN (IF sep THEN <<", ">> ELSE <<>>) \o <<t[n]>>
                  \o SubArgumentNames(t, IF stop = 0 THEN Len(t) + 1 ELSE stop)
             ELSE <<t[i]>> \o SubArgumentNames(t, i + 1)

\* re.finditer(r'\w+(?=: String)', mojo_args)
StringNames(t) ==
    LET hit(i) == IsWord(t[i]) /\ i + 2 <= Len(t) /\ t[i + 1] = ": " /\ t[i + 2] = "String"
    IN  SelectSeq([i \in 1..Len(t) |-> IF hit(i) THEN t[i] ELSE ": "], LAMBDA x : x # ": ")

\* re.sub(r'\b' + name + r'\b', name + '.unsafe_cstr_ptr()', pass_args)
SubUnsafePtr(pass_args, name) ==
    Flatten([i \in 1..Len(pass_args) |->
        IF pass_args[i] = name THEN <<name, ".unsafe_cstr_ptr()">> ELSE <<pass_args[i]>>])

RECURSIVE PassStrings(_, _)
PassStrings(pass_args, names) ==
    IF names = <<>> THEN pass_args ELSE PassStrings(SubUnsafePtr(pass_args, Head(names)), Tail(names))

(***************************************************************************)
(* Function prototypes.  The emitted wrapper is a record: the signature's  *)
(* parameter list, its return type (None for a raising wrapper, whose      *)
(* success value is the out parameter), the doc block, and the body.       *)
(***************************************************************************)
doc_template(doc, name) == [doc |-> doc, docs |-> name]

Call(sdl_name, sdl_args, sdl_ret, pass_args, to_string) ==
    [symbol |-> sdl_name, fn_args |-> sdl_args, fn_ret |-> sdl_ret, pass |-> pass_args, to_string |-> to_string]

fn_raises_template(doc, sdl_name, mojo_name, args, ret, call) ==
    [t |-> "fn_raises",
     name |-> mojo_name,
     args |-> args \o (IF args # <<>> /\ ret # <<"None">> THEN <<", ">> ELSE <<>>)
                   \o (IF ret # <<"None">> THEN <<"out ret: ">> \o ret ELSE <<>>),
     ret |-> None,
     out_ret |-> IF ret # <<"None">> THEN ret ELSE None,
     raises |-> TRUE,
     doc |-> doc_template(doc, sdl_name),
     body |-> [stmt |-> "ret =", call |-> call, on_falsy |-> "raise String(unsafe_from_utf8_ptr=sdl_get_error())"]]

fn_template(doc, sdl_name, mojo_name, args, ret, call) ==
    [t |-> "fn",
     name |-> mojo_name,
     args |-> args,
     ret |-> ret,
     out_ret |-> None,
     raises |-> FALSE,
     doc |-> doc_template(doc, sdl_name),
     body |-> [stmt |-> "return", call |-> call, on_falsy |-> ""]]

Raise(exc) == [t |-> "raise", exc |-> exc]

Empty == [t |-> "empty"]

\* f_attr == 'VARARG'
IsVararg(f_attr) == f_attr = <<"VARARG">>

\* 'VARARG' in f_attr: an attribute is the sequence of the pieces of its text
HasVararg(f_attr) == \E i \in 1..Len(f_attr) : f_attr[i] = "VARARG"

\* doc.replace('Returns', 'Raises')
ReplaceReturns(lines) ==
    [j \in 1..Len(lines) |-> OutLine(lines[j].ind, [k \in 1..Len(lines[j].words) |->
        CASE lines[j].words[k] = "Returns:" -> "Raises:"
          [] lines[j].words[k] = "Returns" -> "Raises"
          [] OTHER -> lines[j].words[k]])]

\* re.sub(r'True on success.*?false (.*)', r'Raises \1', doc)
SubTrueOnSuccess(lines) ==
    [j \in 1..Len(lines) |->
        LET w == lines[j].words
            a == FirstIndex(1, Len(w) - 2, LAMBDA k : SubSeq(w, k, k + 2) = <<"True", "on", "success">>)
            b == IF a = 0 THEN 0 ELSE FirstIndex(a + 3, Len(w), LAMBDA k : w[k] = "false")
        IN  IF b = 0 THEN lines[j]
            ELSE OutLine(lines[j].ind, SubSeq(w, 1, a - 1) \o <<"Raises">> \o SubSeq(w, b + 1, Len(w)))]

RaisesDoc(doc) == Formatted(doc.kind, SubTrueOnSuccess(ReplaceReturns(doc.lines)))

StartsWithPtrOrString(t) == t # <<>> /\ t[1] \in {"Ptr[", "String"}

\* the call expression: the names of the arguments, the String ones as raw pointers
FunctionCall(sdl_name, sdl_args, sdl_ret) ==
    Call(sdl_name, sdl_args, sdl_ret,
         PassStrings(SubArgumentNames(sdl_args, 1), StringNames(SubStringArgument(sdl_args, 1, TRUE))),
         SubStringArgument(sdl_ret, 1, FALSE) = <<"String">>)

\* the if / elif / else that ends translate_function
FunctionTemplate(doc, sdl_name, mojo_ret, mojo_args, call) ==
    IF SearchTrueOnSuccess(doc) = "TypeError" THEN Raise("TypeError")
    ELSE IF SearchTrueOnSuccess(doc) = "found" /\ mojo_ret = <<"Bool">>
         THEN fn_raises_template(RaisesDoc(doc), sdl_name, snake_case(sdl_name), mojo_args, <<"None">>, call)
    ELSE IF SearchOnFailure(doc) = "found" /\ StartsWithPtrOrString(mojo_ret)
         THEN fn_raises_template(doc, sdl_name, snake_case(sdl_name), mojo_args, mojo_ret, call)
    ELSE fn_template(doc, sdl_name, snake_case(sdl_name), mojo_args, mojo_ret, call)

\* translate_function after its first if: the doc, the return type, the arguments
FunctionWrapper(doc, sdl_name, sdl_ret, f_args) ==
    IF doc.kind \notin {"str", "None"} THEN Raise(doc.kind)
    ELSE IF ArgumentRaises(f_args) THEN Raise("TypeError")
    ELSE FunctionTemplate(doc, sdl_name, SubStringArgument(sdl_ret, 1, FALSE),
                          SubStringArgument(SubArguments(f_args, 1), 1, TRUE),
                          FunctionCall(sdl_name, SubArguments(f_args, 1), sdl_ret))

translate_function(m) ==
    IF m.f_attr # None /\ HasVararg(m.f_attr) THEN Empty
    ELSE FunctionWrapper(format_docblock(m.doc), m.f_name, translate_return_type(match_return(m.f_ret)), m.f_args)

(***************************************************************************)
(* Enums.  An enum body is a sequence of items: a member line              *)
(* [t = "member", name, value, doc] whose value is the text after "= "     *)
(* (None when the member has none), or an #if/#else/#endif block           *)
(* [t = "if", cond, true, false] whose branches are sequences of           *)
(* [name, val] lines.  The body has no free-standing comment lines, so     *)
(* translate_enum_comment finds nothing to rewrite.                        *)
(***************************************************************************)
Numerals == {"0", "1", "2", "3", "4", "5", "6", "7", "8", "9"}

\* the line translate_enum_type returns, and the state of the two module-level
\* counters after it
EnumLine(m, text) ==
    [t |-> "alias", name |-> IF m.name \in Numerals THEN <<"N", m.name>> ELSE <<m.name>>,
     value |-> text, doc |-> format_docblock(m.doc)]

\* the member with a value: the counters move when int(value, 0) succeeds
ExplicitMember(m, stripped, parsed, value, base) ==
    IF parsed.ok
    THEN [line |-> EnumLine(m, stripped),
          running_enum_value |-> parsed.n + 1,
          running_enum_base |-> IF StartsWith0x(stripped) THEN 16 ELSE 10]
    ELSE [line |-> EnumLine(m, <<"Self.">> \o stripped), running_enum_value |-> value, running_enum_base |-> base]

translate_enum_type(m, value, base) ==
    IF m.value # None THEN ExplicitMember(m, RemoveU(m.value), int0(RemoveU(m.value)), value, base)
    ELSE [line |-> EnumLine(m, IF base = 16 THEN hex(value) ELSE str(value)),
          running_enum_value |-> value + 1,
          running_enum_base |-> base]

enum_if_cond(cond) ==
    CASE cond = "SDL_BYTEORDER == SDL_BIG_ENDIAN" -> "is_big_endian()"
      [] cond = "SDL_BYTEORDER == SDL_LIL_ENDIAN" -> "is_little_endian()"
      [] OTHER -> cond

\* re.finditer(match_enum_if_type, branch): the lines that read name = val
EnumIfTypes(branch) == SelectSeq(branch, LAMBDA l : l.val # "")

\* translate_enum_if with the value of the #else branch before "if" and that of the
\* #if branch after "else"
translate_enum_if_else_first(m) ==
    LET true_iter == EnumIfTypes(m.true)
        false_iter == EnumIfTypes(m.false)
        n == IF Len(true_iter) < Len(false_iter) THEN Len(true_iter) ELSE Len(false_iter)
    IN  [i \in 1..n |->
            [t |-> "alias_if", name |-> true_iter[i].name, then |-> <<"Self.", false_iter[i].val>>,
             cond |-> enum_if_cond(m.cond), else |-> <<"Self.", true_iter[i].val>>]]

\* translate_enum_if: the loop variable gen.py calls "false" runs over the #if branch
\* (true_iter) and the one it calls "true" over the #else branch (false_iter)
translate_enum_if(m) ==
    LET true_iter == EnumIfTypes(m.true)
        false_iter == EnumIfTypes(m.false)
        n == IF Len(true_iter) < Len(false_iter) THEN Len(true_iter) ELSE Len(false_iter)
    IN  [i \in 1..n |->
            [t |-> "alias_if", name |-> true_iter[i].name, then |-> <<"Self.", true_iter[i].val>>,
             cond |-> enum_if_cond(m.cond), else |-> <<"Self.", false_iter[i].val>>]]

\* re.sub(match_enum_if, translate_enum_if, body)
SubEnumIf(te_body) ==
    Flatten([i \in 1..Len(te_body) |-> IF te_body[i].t = "if" THEN translate_enum_if(te_body[i]) ELSE <<te_body[i]>>])

enum_template(doc, name, lines) == [t |-> "enum", name |-> name, doc |-> doc_template(doc, name), body |-> lines]

(***************************************************************************)
(* The other construct translators.  Their output is kept to the parts     *)
(* the declaration decides: names, mapped types, the doc block.            *)
(***************************************************************************)
translate_heading(m) == [t |-> "heading"]

\* doc = format_docblock(m['doc']) comes first in a translator: when it raises, the
\* text is not made
Attach(doc, text) == IF doc.kind \notin {"str", "None"} THEN Raise(doc.kind) ELSE text

\* translate_def: a #define with parameters becomes a static method, one without a
\* constant of the type; the expression loses its u suffixes
translate_def(d) ==
    [name |-> d.name, static_fn |-> d.params # None, expr |-> RemoveU(d.expr)]

translate_typedef(m) ==
    Attach(format_docblock(m.doc),
           IF m.g.td_ptr
           THEN [t |-> "alias", name |-> m.g.td_name, type |-> <<"Ptr[NoneType]">>,
                 doc |-> doc_template(format_docblock(m.doc), m.g.td_name)]
           ELSE [t |-> "typedef", name |-> m.g.td_name, type |-> <<TypeMapGet(m.g.td_type)>>,
                 doc |-> doc_template(format_docblock(m.doc), m.g.td_name),
                 defs |-> [i \in 1..Len(m.td_defs) |-> translate_def(m.td_defs[i])]])

\* A field declaration is the text between the indentation and ";", as tokens; the
\* declarations have no comments and are no function pointers.
\* \w+ in match_multi_field
IsName(tok) == tok \notin {"*", ","}

\* (?: \*?\w+?,)+ \w+; from token p on: names with their commas, a star at most before
\* each, and a last name without a star
RECURSIVE NamesFrom(_, _)
NamesFrom(d, p) ==
    IF p >= Len(d) THEN p = Len(d) /\ IsName(d[p])
    ELSE IF d[p] = "*" THEN p + 2 <= Len(d) /\ IsName(d[p + 1]) /\ d[p + 2] = "," /\ NamesFrom(d, p + 3)
    ELSE IsName(d[p]) /\ d[p + 1] = "," /\ NamesFrom(d, p + 2)

\* match_multi_field: the token group 2 starts at, after the shortest group 1, or 0
match_multi_field(d) == FirstIndex(2, Len(d) - 2, LAMBDA p : NamesFrom(d, p))

\* re.finditer(r' (\w+?)[,;]', group 2): the names that a space stands before
RECURSIVE FieldNames(_, _)
FieldNames(d, p) ==
    IF p > Len(d) THEN <<>>
    ELSE IF d[p] = "*" THEN FieldNames(d, p + 3)
    ELSE <<d[p]>> \o FieldNames(d, p + 2)

\* split_multifield: one declaration "group 1 name;" per name found
Declarations(type, names) == [k \in 1..Len(names) |-> type \o <<names[k]>>]

split_multifield(d, p) == Declarations(SubSeq(d, 1, p - 1), FieldNames(d, p))

SplitOrKeep(d, p) == IF p = 0 THEN <<d>> ELSE split_multifield(d, p)

\* re.sub(match_multi_field, split_multifield, body)
SubMultiField(fields) == Flatten([i \in 1..Len(fields) |-> SplitOrKeep(fields[i], match_multi_field(fields[i]))])

\* translate_field
translate_field(field) == translate_variable(match_variable(field))

FieldRaises(fields) == \E i \in 1..Len(fields) : match_variable(fields[i]) = None

struct_template(doc, name, fields) ==
    Attach(doc,
           IF FieldRaises(fields) THEN Raise("TypeError")
           ELSE [t |-> "struct", name |-> name, doc |-> doc_template(doc, name),
                 body |-> [i \in 1..Len(fields) |-> translate_field(fields[i])]])

translate_struct(m) == struct_template(format_docblock(m.doc), m.g.s_name, m.g.s_body)

translate_opaque_struct(m) ==
    Attach(format_docblock(m.doc),
           [t |-> "opaque", name |-> m.g.os_name, doc |-> doc_template(format_docblock(m.doc), m.g.os_name)])

translate_ptr_struct(m) ==
    Attach(format_docblock(m.doc),
           [t |-> "alias", name |-> m.g.ps_name, type |-> <<"Ptr[NoneType]">>,
            doc |-> doc_template(format_docblock(m.doc), m.g.ps_name)])

translate_gamepadbinding(doc) == [t |-> "gamepadbinding", doc |-> doc_template(doc, "SDL_GamepadBinding")]

translate_typedef_struct(m) ==
    IF m.g.ts_name = "SDL_GamepadBinding"
    THEN Attach(format_docblock(m.doc), translate_gamepadbinding(format_docblock(m.doc)))
    ELSE struct_template(format_docblock(m.doc), m.g.ts_name, SubMultiField(m.g.ts_body))

\* translate_union: one storage type per member
translate_union(m) ==
    [t |-> "union", name |-> m.g.tu_name,
     body |-> [i \in 1..Len(m.g.tu_body) |-> <<TypeMapGet(m.g.tu_body[i][1])>>]]

\* translate_typedef_function: match_return has no match on a return text that runs
\* over several lines, and m[0] on None is a TypeError
translate_typedef_function(m) ==
    Attach(format_docblock(m.doc),
           IF m.start_at # m.end \/ ArgumentRaises(m.g.tf_args) THEN Raise("TypeError")
           ELSE [t |-> "alias", name |-> m.g.tf_name,
                 type |-> (IF m.g.tf_ptr THEN <<"Ptr[">> ELSE <<>>)
                          \o <<"fn (">> \o SubArguments(m.g.tf_args, 1) \o <<") -> ">>
                          \o translate_return_type(match_return(m.g.tf_ret))
                          \o (IF m.g.tf_ptr THEN <<"]">> ELSE <<>>),
                 doc |-> doc_template(format_docblock(m.doc), m.g.tf_name)])

(***************************************************************************)
(* The recognizer.  A header is a sequence of chunks; a chunk is a run of  *)
(* whole lines: [c = "license"] the opening /* ... */ block, [c = "doc"]   *)
(* a /** ... */ comment (category: it opens with "# Category"),            *)
(* [c = "blank"], [c = "other"] a line no pattern starts at,               *)
(* [c = "define"] a #define line, [c = "typedef_other"] a line that starts *)
(* with "typedef " and has none of the one-line shapes, and one chunk kind *)
(* per construct, named as its pattern and holding its capture groups.     *)
(* No chunk holds "#endif /* !SDL_INTERNAL */", so the optional tail of    *)
(* the struct pattern never matches, and "(SDLCALL *" occurs in            *)
(* typedef_function chunks only.                                           *)
(***************************************************************************)
\* the patterns with the function-pointer typedef tried first
patterns_typedef_function_first ==
    << <<"typedef_function", "translate_typedef_function">>,
       <<"heading", "translate_heading">>,
       <<"typedef", "translate_typedef">>,
       <<"typedef_enum", "translate_enum">>,
       <<"struct", "translate_struct">>,
       <<"opaque_struct", "translate_opaque_struct">>,
       <<"ptr_struct", "translate_ptr_struct">>,
       <<"typedef_struct", "translate_typedef_struct">>,
       <<"typedef_union", "translate_union">>,
       <<"function", "translate_function">> >>

\* the keys of the patterns dict, in its order, each with its translator
patterns ==
    << <<"heading", "translate_heading">>,
       <<"typedef", "translate_typedef">>,
       <<"typedef_enum", "translate_enum">>,
       <<"struct", "translate_struct">>,
       <<"opaque_struct", "translate_opaque_struct">>,
       <<"ptr_struct", "translate_ptr_struct">>,
       <<"typedef_struct", "translate_typedef_struct">>,
       <<"typedef_union", "translate_union">>,
       <<"function", "translate_function">>,
       <<"typedef_function", "translate_typedef_function">> >>

\* the chunks whose text starts with "typedef "
TypedefPrefixed ==
    {"typedef", "typedef_other", "typedef_enum", "opaque_struct", "ptr_struct", "typedef_struct",
     "typedef_union", "typedef_function"}

\* the number of chunks of kind c that follow one another from index i on
RECURSIVE RunOf(_, _, _)
RunOf(text, i, c) == IF i <= Len(text) /\ text[i].c = c THEN 1 + RunOf(text, i + 1, c) ELSE 0

\* the last chunk of the text that pattern key matches when it starts at chunk i
\* (with_doc: the optional doc group has matched the chunk before), or 0
ShapeEnd(key, text, i, with_doc) ==
    IF i > Len(text) THEN 0
    ELSE CASE key = "heading" ->
                IF i = 1 /\ ~with_doc /\ text[1].c = "license"
                THEN FirstIndex(3, Len(text), LAMBDA j : text[j].c = "doc" /\ text[j].category)
                ELSE 0
           [] key = "typedef" ->
                IF text[i].c = "typedef"
                THEN i + RunOf(text, i + 1, "blank") + RunOf(text, i + 1 + RunOf(text, i + 1, "blank"), "define")
                ELSE 0
           [] key = "typedef_function" ->
                IF text[i].c \in TypedefPrefixed
                THEN FirstIndex(i, Len(text), LAMBDA j : text[j].c = "typedef_function")
                ELSE 0
           [] OTHER -> IF text[i].c = key THEN i ELSE 0

NoMatch == [kind |-> "none"]

\* the match of the master regex that starts at chunk i: the doc group is tried
\* first, then the alternatives in the order of patterns; lastgroup is the key of
\* the alternative that matched
Matched(text, i, at, k) ==
    IF k = 0 THEN NoMatch
    ELSE [kind |-> patterns[k][1],
          start |-> i,
          start_at |-> at,
          end |-> ShapeEnd(patterns[k][1], text, at, at # i),
          doc |-> IF at # i THEN text[i].doc ELSE None,
          g |-> text[at],
          td_defs |-> IF patterns[k][1] = "typedef"
                      THEN SelectSeq(SubSeq(text, at + 1, ShapeEnd("typedef", text, at, at # i)),
                                     LAMBDA ch : ch.c = "define")
                      ELSE <<>>]

MatchFrom(text, i, at) ==
    Matched(text, i, at, FirstIndex(1, Len(patterns), LAMBDA n : ShapeEnd(patterns[n][1], text, at, at # i) # 0))

MatchAt(text, i) == MatchFrom(text, i, IF text[i].c = "doc" THEN i + 1 ELSE i)

\* re.finditer: the next match is the one that starts leftmost at or after from
MatchOrNone(text, i) == IF i = 0 THEN NoMatch ELSE MatchAt(text, i)

NextMatch(text, from) ==
    MatchOrNone(text, FirstIndex(from, Len(text), LAMBDA j : MatchAt(text, j) # NoMatch))

\* patterns[match.lastgroup][1]
TranslatorOf(lastgroup) ==
    IF lastgroup = "none" THEN "" ELSE patterns[CHOOSE n \in 1..Len(patterns) : patterns[n][1] = lastgroup][2]

\* the call of a translator other than translate_enum, whose loop the actions step
Apply(translator, m) ==
    CASE translator = "translate_heading" -> translate_heading(m)
      [] translator = "translate_typedef" -> translate_typedef(m)
      [] translator = "translate_struct" -> translate_struct(m)
      [] translator = "translate_opaque_struct" -> translate_opaque_struct(m)
      [] translator = "translate_ptr_struct" -> translate_ptr_struct(m)
      [] translator = "translate_typedef_struct" -> translate_typedef_struct(m)
      [] translator = "translate_union" -> translate_union(m)
      [] translator = "translate_function" ->
           translate_function([doc |-> m.doc, f_ret |-> m.g.f_ret, f_name |-> m.g.f_name,
                               f_args |-> m.g.f_args, f_attr |-> m.g.f_attr])
      [] translator = "translate_typedef_function" -> translate_typedef_function(m)

\* what out.write appends: the translated text, with the match it came from
Fragment(m, translator, text) ==
    [kind |-> m.kind, translator |-> translator, start |-> m.start, end |-> m.end, text |-> text]

(***************************************************************************)
(* The program: get_src over one header after another.                     *)
(***************************************************************************)
Init ==
    /\ running_enum_value = 0
    /\ running_enum_base = 0
    /\ pc = "idle"
    /\ src = <<>>
    /\ pos = 0
    /\ cur = NoMatch
    /\ body = <<>>
    /\ idx = 0
    /\ acc = <<>>
    /\ out = <<>>
    /\ hist = <<>>

\* get_src opens the header and the output file
get_src(h) ==
    /\ pc = "idle"
    /\ Len(hist) < MaxRuns
    /\ src' = h
    /\ pos' = 1
    /\ out' = <<>>
    /\ cur' = NoMatch
    /\ pc' = "scan"
    /\ UNCHANGED <<running_enum_value, running_enum_base, body, idx, acc, hist>>

\* one turn of the finditer loop for a match that is no enum: the translator runs
\* and its text is written, or its exception ends the program
Written(m, translator, text) ==
    /\ cur' = m
    /\ pc' = IF text.t = "raise" THEN "crashed" ELSE "scan"
    /\ out' = IF text.t = "raise" THEN out ELSE Append(out, Fragment(m, translator, text))
    /\ pos' = IF text.t = "raise" THEN pos ELSE m.end + 1

Dispatch(m, translator) ==
    /\ m # NoMatch
    /\ translator # "translate_enum"
    /\ Written(m, translator, Apply(translator, m))

write_match ==
    /\ pc = "scan"
    /\ Dispatch(NextMatch(src, pos), TranslatorOf(NextMatch(src, pos).kind))
    /\ UNCHANGED <<running_enum_value, running_enum_base, src, body, idx, acc, hist>>

\* translate_enum up to its second re.sub: the value counter is reset, the base
\* counter is not, the doc is formatted (its exception ends the program), the #if
\* blocks are rewritten
EnterEnum(m, translator) ==
    /\ m # NoMatch
    /\ translator = "translate_enum"
    /\ running_enum_value' = 0
    /\ cur' = m
    /\ IF Attach(format_docblock(m.doc), Empty).t = "raise"
       THEN pc' = "crashed" /\ UNCHANGED <<body, idx, acc>>
       ELSE /\ body' = SubEnumIf(m.g.te_body)
            /\ idx' = 1
            /\ acc' = <<>>
            /\ pc' = "enum"

translate_enum ==
    /\ pc = "scan"
    /\ EnterEnum(NextMatch(src, pos), TranslatorOf(NextMatch(src, pos).kind))
    /\ UNCHANGED <<running_enum_base, src, pos, out, hist>>

\* re.sub(match_enum_types, translate_enum_type, body) comes to the next line: a
\* member line is translated, a line translate_enum_if wrote is left as it is
enum_type ==
    /\ pc = "enum"
    /\ idx <= Len(body)
    /\ LET r == translate_enum_type(body[idx], running_enum_value, running_enum_base)
           member == body[idx].t = "member"
       IN  /\ acc' = Append(acc, IF member THEN r.line ELSE body[idx])
           /\ running_enum_value' = IF member THEN r.running_enum_value ELSE running_enum_value
           /\ running_enum_base' = IF member THEN r.running_enum_base ELSE running_enum_base
    /\ idx' = idx + 1
    /\ UNCHANGED <<pc, src, pos, cur, body, out, hist>>

\* translate_enum returns and its text is written
enum_return ==
    /\ pc = "enum"
    /\ idx > Len(body)
    /\ out' = Append(out, Fragment(cur, "translate_enum",
                                   enum_template(format_docblock(cur.doc), cur.g.te_name, acc)))
    /\ pos' = cur.end + 1
    /\ pc' = "scan"
    /\ body' = <<>>
    /\ idx' = 0
    /\ acc' = <<>>
    /\ UNCHANGED <<running_enum_value, running_enum_base, src, cur, hist>>

\* finditer is exhausted: get_src returns, its file objects are closed (track: the
\* run keeps the header and what was written for it)
end_of_file(track) ==
    /\ pc = "scan"
    /\ NextMatch(src, pos) = NoMatch
    /\ pc' = "idle"
    /\ src' = <<>>
    /\ pos' = 0
    /\ out' = <<>>
    /\ cur' = NoMatch
    /\ hist' = IF track THEN Append(hist, [src |-> src, out |-> out]) ELSE hist
    /\ UNCHANGED <<running_enum_value, running_enum_base, body, idx, acc>>

(***************************************************************************)
(* Headers.  The texts the translator is run on.                           *)
(***************************************************************************)
\* the sequences over S of length lo..hi
SeqsOf(S, lo, hi) == UNION {[1..n -> S] : n \in lo..hi}

Injective(f) == \A i, j \in DOMAIN f : i # j => f[i] # f[j]

Member(name, value) == [t |-> "member", name |-> name, value |-> value, doc |-> None]

MemberNames == <<"A", "B", "C", "D", "E", "F">>

\* the text after "= ": none, a decimal literal, a 0x literal, the name of the first member
MemberValues == {None, <<"1">>, <<"0", "x", "1", "0">>, <<"A">>}

\* enum bodies of plain members; the first member does not name itself
MemberBodies ==
    {[i \in 1..Len(vs) |-> Member(MemberNames[i], vs[i])] : vs \in {v \in SeqsOf(MemberValues, 1, MaxMembers) : v[1] # <<"A">>}}

IfLine(name, val) == [name |-> name, val |-> val]

IfBlock(cond, true, false) == [t |-> "if", cond |-> cond, true |-> true, false |-> false]

EndianConds == {"SDL_BYTEORDER == SDL_BIG_ENDIAN", "SDL_BYTEORDER == SDL_LIL_ENDIAN"}

TrueBranches == {<<IfLine("P", "X")>>, <<IfLine("P", "X"), IfLine("Q", "Y")>>}

FalseBranches == {<<IfLine("P", "Y")>>, <<IfLine("P", "Y"), IfLine("Q", "X")>>, <<IfLine("R", "Y")>>}

\* enum bodies with one #if block between two members
IfBodies ==
    {<<Member("A", v)>> \o <<IfBlock(c, t, f)>> \o <<Member("B", None)>> :
        v \in {None, <<"0", "x", "1", "0">>}, c \in EndianConds, t \in TrueBranches, f \in FalseBranches}

EnumChunk(te_body) == [c |-> "typedef_enum", te_name |-> "SDL_Kind", te_body |-> te_body]

EnumHeaders == {<<EnumChunk(b)>> : b \in MemberBodies \cup IfBodies}

DocChunk(doc, category) == [c |-> "doc", doc |-> doc, category |-> category]

\* doc comments of prototypes: None is the prototype without one
DocSamples ==
    {None,
     <<Line("", 0, <<"get", "the", "title">>)>>,
     <<Line("", 0, <<"set", "the", "title", ".">>), Line("", 0, <<>>),
       Line("param", 0, <<"title", "the", "title", ".">>),
       Line("returns", 0, <<"true", "on", "success", "or", "false", "on", "failure", ";", "call", "SDL_GetError()", "for", "more">>),
       Line("", 9, <<"information", ".">>), Line("", 0, <<>>),
       Line("threadsafety", 0, <<"safe", ".">>)>>,
     <<Line("returns", 0, <<"true", "on", "success", "or", "false", "on", "failure", ";", "call", "SDL_GetError()", ".">>),
       Line("", 0, <<>>)>>,
     <<Line("", 0, <<"open", "a", "window", ".">>), Line("", 0, <<>>),
       Line("returns", 0, <<"the", "window", "or", "NULL", "on", "failure", ";", "call", "SDL_GetError()", ".">>),
       Line("", 0, <<>>)>>,
     <<Line("", 0, <<"get", "the", "title", ".">>), Line("", 0, <<>>),
       Line("returns", 0, <<"the", "title", ".">>), Line("", 0, <<>>)>>}

ReturnTypes == {<<"void">>, <<"bool">>, <<"int">>, <<"const", "char", "*">>, <<"SDL_Window", "*">>}

ArgPool ==
    {<<"const", "char", "*", "title">>, <<"const", "char", "*", "aName">>, <<"SDL_Window", "*", "window">>,
     <<"int", "w">>, <<"char", "*", "buf">>, <<"const", "char", "*", "*", "list">>}

\* argument lists: (void), or up to MaxArgs arguments of different names
ArgLists == {<< <<"void">> >>} \cup {a \in SeqsOf(ArgPool, 1, MaxArgs) : Injective(a)}

\* the text between ")" and ";": none, a variadic marker, another attribute
Attributes == {None, <<" SDL_PRINTF_", "VARARG", "_FUNC(1)">>, <<" SDL_MALLOC">>}

FunctionChunk(f_ret, f_name, f_args, f_attr) ==
    [c |-> "function", f_ret |-> f_ret, f_name |-> f_name, f_args |-> f_args, f_attr |-> f_attr]

Prototypes == {FunctionChunk(r, "SDL_SetTitle", a, at) : r \in ReturnTypes, a \in ArgLists, at \in Attributes}

FnHeaders == {IF d = None THEN <<p>> ELSE <<DocChunk(d, FALSE), p>> : d \in DocSamples, p \in Prototypes}

\* one chunk of each kind
ScanChunks ==
    {[c |-> "license"], [c |-> "blank"], [c |-> "other"], [c |-> "typedef_other"],
     DocChunk(<<Line("", 0, <<"get", "the", "title", ".">>)>>, FALSE),
     DocChunk(<<Line("", 0, <<"#", "CategoryInit">>), Line("", 0, <<>>), Line("", 0, <<"open", "a", "window", ".">>)>>, TRUE),
     [c |-> "define", name |-> "SDL_MAX", params |-> None, expr |-> <<"7", "u">>],
     [c |-> "typedef", td_type |-> "Uint32", td_ptr |-> FALSE, td_name |-> "SDL_Id"],
     EnumChunk(<<Member("A", <<"0", "x", "1", "0">>), Member("B", None)>>),
     [c |-> "struct", s_name |-> "SDL_Point", s_body |-> << <<"int", "w">> >>],
     [c |-> "opaque_struct", os_name |-> "SDL_Window"],
     [c |-> "ptr_struct", ps_type |-> "SDL_GLContextState", ps_name |-> "SDL_GLContext"],
     [c |-> "typedef_struct", ts_name |-> "SDL_Rect", ts_body |-> << <<"int", "w">>, <<"float", "*", "buf">> >>],
     [c |-> "typedef_union", tu_name |-> "SDL_Event", tu_body |-> << <<"Uint32", "type">>, <<"int", "w">> >>],
     FunctionChunk(<<"int">>, "SDL_Open", << <<"const", "char", "*", "title">> >>, None),
     [c |-> "typedef_function", tf_ret |-> <<"void">>, tf_ptr |-> FALSE, tf_name |-> "SDL_Cb",
      tf_args |-> << <<"void", "*", "userData">> >>]}

ScanHeaders == SeqsOf(ScanChunks, 1, MaxChunks)

\* the headers of a whole run of the driver: an enum that ends in hexadecimal, one
\* that starts without a value, a documented prototype, alone or two in a header
RunChunks ==
    {EnumChunk(<<Member("A", None), Member("B", <<"0", "x", "1", "0">>)>>),
     EnumChunk(<<Member("A", None), Member("B", None)>>),
     EnumChunk(<<Member("A", <<"1">>), Member("B", None)>>),
     [c |-> "opaque_struct", os_name |-> "SDL_Window"],
     [c |-> "typedef", td_type |-> "Uint32", td_ptr |-> FALSE, td_name |-> "SDL_Id"]}

Headers == {<<a>> : a \in RunChunks} \cup {<<a, b>> : a, b \in RunChunks}

\* the lines of a doc comment without directives: two prose lines, the second one
\* without its period, and the blank line " *"
ProseLines == {Line("", 0, <<"open", "a", "window", ".">>), Line("", 0, <<"get", "the", "title">>), Line("", 0, <<>>)}

ProseDocs == SeqsOf(ProseLines, 1, MaxLines)

\* a declaration under each of the doc comments
DocHeaders == {<<DocChunk(d, FALSE), [c |-> "opaque_struct", os_name |-> "SDL_Window"]>> : d \in ProseDocs}

\* field declarations: of one name, of several, with stars before some of the names
FieldDecls ==
    {<<"int", "w">>, <<"float", "*", "buf">>, <<"int", "w", ",", "h">>, <<"float", "*", "a", ",", "b">>,
     <<"int", "x", ",", "*", "y", ",", "z">>, <<"const", "char", "*", "a", ",", "b">>, <<"int", "a", ",", "*", "b">>}

StructBodies == SeqsOf(FieldDecls, 1, MaxFields)

StructChunks ==
    {[c |-> "struct", s_name |-> "SDL_Point", s_body |-> b] : b \in StructBodies}
        \cup {[c |-> "typedef_struct", ts_name |-> "SDL_Rect", ts_body |-> b] : b \in StructBodies}

\* a struct or a typedef struct, with a doc comment or without
StructHeaders ==
    {<<ch>> : ch \in StructChunks}
        \cup {<<DocChunk(<<Line("", 0, <<"open", "a", "window", ".">>)>>, FALSE), ch>> : ch \in StructChunks}

(***************************************************************************)
(* Specifications.                                                         *)
(***************************************************************************)
\* the driver's loop over the includes; every run is kept
Next ==
    \/ \E h \in Headers : get_src(h)
    \/ write_match
    \/ translate_enum
    \/ enum_type
    \/ enum_return
    \/ end_of_file(TRUE)

Spec == Init /\ [][Next]_vars

\* headers of one enum each
NextEnum ==
    \/ \E h \in EnumHeaders : get_src(h)
    \/ translate_enum
    \/ enum_type
    \/ enum_return
    \/ end_of_file(FALSE)

SpecEnum == Init /\ [][NextEnum]_vars

\* headers of one prototype each
NextFn ==
    \/ \E h \in FnHeaders : get_src(h)
    \/ write_match
    \/ end_of_file(FALSE)

SpecFn == Init /\ [][NextFn]_vars

\* headers of up to MaxChunks chunks of any kind
NextScan ==
    \/ \E h \in ScanHeaders : get_src(h)
    \/ write_match
    \/ translate_enum
    \/ enum_type
    \/ enum_return
    \/ end_of_file(FALSE)

SpecScan == Init /\ [][NextScan]_vars

\* headers of one documented declaration each
NextDoc ==
    \/ \E h \in DocHeaders : get_src(h)
    \/ write_match
    \/ end_of_file(FALSE)

SpecDoc == Init /\ [][NextDoc]_vars

\* headers of one struct each
NextStruct ==
    \/ \E h \in StructHeaders : get_src(h)
    \/ write_match
    \/ end_of_file(FALSE)

SpecStruct == Init /\ [][NextStruct]_vars

(***************************************************************************)
(* Properties of enum translation, checked under SpecEnum (C1, C2, C4)     *)
(* and under Spec (C3).                                                    *)
(***************************************************************************)
\* the enum being translated, or just written
InEnum == cur.kind = "typedef_enum"

\* the lines translated so far, or the body of the enum just written
EnumEmitted ==
    IF pc = "enum" THEN acc
    ELSE IF pc = "scan" /\ out # <<>> /\ Last(out).kind = "typedef_enum" THEN Last(out).text.body
    ELSE <<>>

AllMembers(b) == \A i \in 1..Len(b) : b[i].t = "member"

\* the value a member has in C: its literal, the value of the member it names, or
\* one more than the member before it
RECURSIVE ResolvedValue(_, _)
ResolvedValue(b, i) ==
    IF b[i].value = None THEN (IF i = 1 THEN 0 ELSE ResolvedValue(b, i - 1) + 1)
    ELSE IF int0(b[i].value).ok THEN int0(b[i].value).n
    ELSE ResolvedValue(b, CHOOSE j \in 1..Len(b) : <<b[j].name>> = b[i].value)

\* the last member before i that has an explicit value, or 0
LastExplicit(b, i) ==
    IF \E j \in 1..(i - 1) : b[j].value # None
    THEN CHOOSE j \in 1..(i - 1) : b[j].value # None /\ \A k \in (j + 1)..(i - 1) : b[k].value = None
    ELSE 0

\* the texts the rule allows for member i, which has no value of its own: hexadecimal
\* after a 0x literal, decimal after another literal or when no member before it has
\* a value (after a member that names another, either)
ExpectedTexts(b, i) ==
    IF LastExplicit(b, i) = 0 THEN {str(ResolvedValue(b, i))}
    ELSE IF ~int0(b[LastExplicit(b, i)].value).ok THEN {str(ResolvedValue(b, i)), hex(ResolvedValue(b, i))}
    ELSE IF StartsWith0x(b[LastExplicit(b, i)].value) THEN {hex(ResolvedValue(b, i))}
    ELSE {str(ResolvedValue(b, i))}

\* C1: within one enum translation every member without an explicit value is emitted
\* as the resolved value of the member before it plus one (0 for a first member),
\* in hexadecimal exactly when the most recent explicitly valued member before it in
\* the same enum is a 0x literal, and in decimal otherwise
C1_AutoIncrement ==
    (InEnum /\ AllMembers(cur.g.te_body)) =>
        \A i \in 1..Len(EnumEmitted) :
            cur.g.te_body[i].value = None => EnumEmitted[i].value \in ExpectedTexts(cur.g.te_body, i)

\* C2: at the start of each translate_enum call both counters are reset, the value
\* to 0 and the base to decimal
C2_CountersReset ==
    (pc = "enum" /\ idx = 1) => (running_enum_value = 0 /\ running_enum_base # 16)

\* C3: two translations of the same header text in one run write the same output
C3_Deterministic ==
    \A i, j \in 1..Len(hist) : hist[i].src = hist[j].src => hist[i].out = hist[j].out

Platforms == {"big", "little"}

\* the truth of the condition of an #if line on a platform
SourceCondition(cond, p) ==
    \/ cond = "SDL_BYTEORDER == SDL_BIG_ENDIAN" /\ p = "big"
    \/ cond = "SDL_BYTEORDER == SDL_LIL_ENDIAN" /\ p = "little"

\* the truth of the condition of an emitted conditional expression on a platform
EmittedCondition(cond, p) ==
    \/ cond = "is_big_endian()" /\ p = "big"
    \/ cond = "is_little_endian()" /\ p = "little"

\* the value of "then if cond else else" on a platform
Evaluate(line, p) == IF EmittedCondition(line.cond, p) THEN line.then ELSE line.else

\* the #if block of the enum in translation (the bodies with one have one)
IfBlockOf(b) == b[CHOOSE i \in 1..Len(b) : b[i].t = "if"]

HasIfBlock(b) == \E i \in 1..Len(b) : b[i].t = "if"

EmittedIfLines == SelectSeq(EnumEmitted, LAMBDA l : l.t = "alias_if")

\* C4, as the code has it: the constant emitted for the nth pair of an #if / #else
\* block evaluates to the value of the #if branch where the endianness condition is
\* true and to the value of the #else branch where it is false
C4_IfBranchWhenTrue ==
    (InEnum /\ HasIfBlock(cur.g.te_body)) =>
        \A k \in 1..Len(EmittedIfLines) : \A p \in Platforms :
            Evaluate(EmittedIfLines[k], p) =
                <<"Self.", IF SourceCondition(IfBlockOf(cur.g.te_body).cond, p)
                           THEN IfBlockOf(cur.g.te_body).true[k].val
                           ELSE IfBlockOf(cur.g.te_body).false[k].val>>

\* C4, as stated: the constant evaluates to the value of the #else branch where the
\* condition is true and to the value of the #if branch where it is false
C4_ElseBranchWhenTrue ==
    (InEnum /\ HasIfBlock(cur.g.te_body)) =>
        \A k \in 1..Len(EmittedIfLines) : \A p \in Platforms :
            Evaluate(EmittedIfLines[k], p) =
                <<"Self.", IF SourceCondition(IfBlockOf(cur.g.te_body).cond, p)
                           THEN IfBlockOf(cur.g.te_body).false[k].val
                           ELSE IfBlockOf(cur.g.te_body).true[k].val>>

\* an enum with a two-line #if branch and a two-line #else branch has been written
C4_Witness ==
    /\ pc = "scan"
    /\ InEnum
    /\ HasIfBlock(cur.g.te_body)
    /\ Len(IfBlockOf(cur.g.te_body).true) = 2
    /\ Len(IfBlockOf(cur.g.te_body).false) = 2
    /\ Len(EmittedIfLines) = 2

(***************************************************************************)
(* Properties of function translation, checked under SpecFn (C5 to C8 and  *)
(* C10).  After write_match, cur is the prototype's match; its wrapper is  *)
(* the last fragment written, unless the translator raised.                *)
(***************************************************************************)
InFunction == cur.kind = "function" /\ pc \in {"scan", "crashed"}

\* the trailing attribute of the prototype contains VARARG
FlaggedVariadic(g) == g.f_attr # None /\ \E i \in 1..Len(g.f_attr) : g.f_attr[i] = "VARARG"

StartsWithWords(words, prefix) == Len(words) >= Len(prefix) /\ SubSeq(words, 1, Len(prefix)) = prefix

\* the doc comment has a \returns line that opens "true on success or false on failure"
DocSaysTrueOnSuccess(doc) ==
    doc # None /\ \E i \in 1..Len(doc) :
        doc[i].cat = "returns" /\ StartsWithWords(doc[i].words, <<"true", "on", "success", "or", "false", "on", "failure">>)

\* the doc comment says "on failure;" somewhere
DocSaysOnFailure(doc) ==
    doc # None /\ \E i \in 1..Len(doc) : LineHas(doc[i], <<"on", "failure", ";">>)

Wrapper == Last(out).text

RaiseOnFalsy ==
    [stmt |-> "ret =", on_falsy |-> "raise String(unsafe_from_utf8_ptr=sdl_get_error())"]

\* the failure-signaling form: no return type, the call result tested, the error
\* raised from sdl_get_error()
FailureSignaling(w) ==
    /\ w.t = "fn_raises"
    /\ w.raises
    /\ w.ret = None
    /\ [stmt |-> w.body.stmt, on_falsy |-> w.body.on_falsy] = RaiseOnFalsy

HasOutParam(w) == \E i \in 1..Len(w.args) : w.args[i] = "out ret: "

\* C5: a bool prototype documented as returning true on success and false on failure
\* gets the failure-signaling wrapper with no return and no out value
C5_TrueOnSuccessRaises ==
    (InFunction /\ ~FlaggedVariadic(cur.g) /\ cur.g.f_ret = <<"bool">> /\ DocSaysTrueOnSuccess(cur.doc)) =>
        /\ pc = "scan"
        /\ FailureSignaling(Wrapper)
        /\ Wrapper.out_ret = None
        /\ ~HasOutParam(Wrapper)

C5_Witness ==
    /\ InFunction
    /\ cur.g.f_ret = <<"bool">>
    /\ DocSaysTrueOnSuccess(cur.doc)
    /\ cur.g.f_attr = None
    /\ Len(cur.g.f_args) = 2
    /\ pc = "scan"
    /\ Wrapper.t = "fn_raises"

RawCharPointer == <<"Ptr[", "c_char", ", mut = ", "False", "]">>

\* C6: the wrapper of a documented prototype that returns const char * has return
\* type String and converts the call's result, the native function type keeping
\* the raw pointer
C6_StringReturn ==
    (InFunction /\ ~FlaggedVariadic(cur.g) /\ cur.doc # None /\ cur.g.f_ret = <<"const", "char", "*">>) =>
        /\ pc = "scan"
        /\ (Wrapper.ret = <<"String">> \/ Wrapper.out_ret = <<"String">>)
        /\ Wrapper.body.call.to_string
        /\ Wrapper.body.call.fn_ret = RawCharPointer

IsStringParam(a) == Len(a) = 4 /\ SubSeq(a, 1, 3) = <<"const", "char", "*">>

\* the parameters of the prototype ((void) has none)
Params(g) == IF g.f_args = << <<"void">> >> THEN <<>> ELSE g.f_args

RECURSIVE JoinArgs(_)
JoinArgs(parts) ==
    IF parts = <<>> THEN <<>>
    ELSE IF Len(parts) = 1 THEN parts[1]
    ELSE parts[1] \o <<", ">> \o JoinArgs(Tail(parts))

\* the parameter as the native function type has it
NativeParam(a) ==
    IF IsStringParam(a) THEN <<snake_case(Last(a)), ": ">> \o RawCharPointer
    ELSE translate_variable(match_variable(a))

\* the parameter as the wrapper is to declare it
WrapperParam(a) ==
    IF IsStringParam(a) THEN <<"owned ", snake_case(Last(a)), ": ", "String">> ELSE NativeParam(a)

\* the parameter as the call is to pass it
PassedParam(a) ==
    IF IsStringParam(a) THEN <<snake_case(Last(a)), ".unsafe_cstr_ptr()">> ELSE <<snake_case(Last(a))>>

ParamsAs(g, P(_)) == JoinArgs([i \in 1..Len(Params(g)) |-> P(Params(g)[i])])

\* the parameter list of the wrapper, without the out value of a raising wrapper
DeclaredParams(w, n) == IF n <= Len(w.args) THEN SubSeq(w.args, 1, n) ELSE w.args

OutValueOnly(rest) ==
    rest = <<>> \/ rest[1] = "out ret: " \/ (Len(rest) >= 2 /\ rest[1] = ", " /\ rest[2] = "out ret: ")

IsPointerOrString(ret) == ret # <<>> /\ ret[1] \in {"Ptr[", "String"}

\* C8: every prototype that is not variadic, documented or not, gets one wrapper: the
\* failure-signaling form without a value for the documented bool case, the
\* failure-signaling form with out ret where the doc says "on failure;" and the
\* return type is a pointer or a string, the direct form otherwise
C8_OneWrapper ==
    (InFunction /\ ~FlaggedVariadic(cur.g)) =>
        /\ pc = "scan"
        /\ IF cur.g.f_ret = <<"bool">> /\ DocSaysTrueOnSuccess(cur.doc)
           THEN FailureSignaling(Wrapper) /\ Wrapper.out_ret = None
           ELSE IF DocSaysOnFailure(cur.doc) /\ IsPointerOrString(translate_return_type(match_return(cur.g.f_ret)))
                THEN FailureSignaling(Wrapper) /\ Wrapper.out_ret # None /\ HasOutParam(Wrapper)
                ELSE Wrapper.t = "fn" /\ Wrapper.body.stmt = "return"

\* C10: a prototype whose attribute contains VARARG is translated to the empty string
\* and nothing is raised, whatever its doc comment and return type
C10_VariadicDropped ==
    (InFunction /\ FlaggedVariadic(cur.g)) => (pc = "scan" /\ Wrapper = Empty)

C10_Witness ==
    /\ InFunction
    /\ FlaggedVariadic(cur.g)
    /\ cur.doc = None
    /\ cur.g.f_ret = <<"const", "char", "*">>
    /\ pc = "scan"
    /\ Wrapper = Empty

(***************************************************************************)
(* Properties of the recognizer, checked under SpecScan (C9).              *)
(***************************************************************************)
\* the priority order of the constructs
Priority ==
    <<"heading", "typedef", "typedef_enum", "struct", "opaque_struct", "ptr_struct", "typedef_struct",
      "typedef_union", "function", "typedef_function">>

\* the translator of each construct kind, and the forms of text it returns
Routes ==
    [k \in {Priority[n] : n \in 1..Len(Priority)} |->
        CASE k = "heading" -> [translator |-> "translate_heading", forms |-> {"heading"}]
          [] k = "typedef" -> [translator |-> "translate_typedef", forms |-> {"alias", "typedef"}]
          [] k = "typedef_enum" -> [translator |-> "translate_enum", forms |-> {"enum"}]
          [] k = "struct" -> [translator |-> "translate_struct", forms |-> {"struct"}]
          [] k = "opaque_struct" -> [translator |-> "translate_opaque_struct", forms |-> {"opaque"}]
          [] k = "ptr_struct" -> [translator |-> "translate_ptr_struct", forms |-> {"alias"}]
          [] k = "typedef_struct" -> [translator |-> "translate_typedef_struct", forms |-> {"struct", "gamepadbinding"}]
          [] k = "typedef_union" -> [translator |-> "translate_union", forms |-> {"union"}]
          [] k = "function" -> [translator |-> "translate_function", forms |-> {"fn", "fn_raises", "empty"}]
          [] k = "typedef_function" -> [translator |-> "translate_typedef_function", forms |-> {"alias"}]]

\* the chunk a match that starts at chunk i has its construct at: the one after an
\* attached doc comment
ConstructAt(i) == IF src[i].c = "doc" THEN i + 1 ELSE i

ShapeMatches(key, i) == ShapeEnd(key, src, ConstructAt(i), src[i].c = "doc") # 0

\* the first construct in the priority order whose shape matches at chunk i
FirstShape(i) ==
    Priority[CHOOSE n \in 1..Len(Priority) :
                 ShapeMatches(Priority[n], i) /\ \A k \in 1..(n - 1) : ~ShapeMatches(Priority[k], i)]

Unmatched(i) == \A n \in 1..Len(Priority) : ~ShapeMatches(Priority[n], i)

\* the matches made so far: the fragments written, and the match whose translator
\* raised
Committed == IF pc = "crashed" THEN Append(out, cur) ELSE out

ScanState ==
    /\ \A k \in 1..Len(Committed) :
          /\ Committed[k].start <= Committed[k].end
          /\ (IF k = 1 THEN 0 ELSE Committed[k - 1].end) < Committed[k].start
          /\ \A i \in ((IF k = 1 THEN 0 ELSE Committed[k - 1].end) + 1)..(Committed[k].start - 1) : Unmatched(i)
          /\ Committed[k].kind = FirstShape(Committed[k].start)
          /\ Committed[k].end = ShapeEnd(Committed[k].kind, src, ConstructAt(Committed[k].start),
                                         src[Committed[k].start].c = "doc")
    /\ \A k \in 1..Len(out) :
          /\ out[k].translator = Routes[out[k].kind].translator
          /\ out[k].text.t \in Routes[out[k].kind].forms
    /\ (pc = "enum" => cur.kind = "typedef_enum" /\ cur.kind = FirstShape(cur.start))

\* get_src returns only when nothing after the last match matches
ScanEnds ==
    (pc = "scan" /\ pc' = "idle") =>
        \A i \in ((IF out = <<>> THEN 0 ELSE Last(out).end) + 1)..Len(src) : Unmatched(i)

\* C9: one scan from left to right: the spans of the matches increase and do not
\* overlap, no chunk between two matches starts one, each match is of the first
\* construct in the priority order whose shape matches where it starts, it goes to
\* the translator of that construct, the fragments are written in the order of the
\* source, and the scan ends only where nothing more matches
C9_Scan == []ScanState /\ [][ScanEnds]_vars

\* a typedef followed by a function-pointer typedef: both shapes match at the first
\* chunk, and two fragments are written
C9_Witness ==
    /\ pc = "scan"
    /\ Len(out) = 2
    /\ out[1].kind = "typedef"
    /\ ShapeMatches("typedef_function", 1)
    /\ out[2].kind = "typedef_function"

(***************************************************************************)
(* Properties of the documentation of a declaration without a doc comment, *)
(* checked under SpecScan (C11).                                           *)
(***************************************************************************)
\* the construct translators that attach documentation
Documenting ==
    {"translate_typedef", "translate_enum", "translate_struct", "translate_opaque_struct",
     "translate_ptr_struct", "translate_typedef_struct", "translate_function", "translate_typedef_function"}

\* the last fragment of the output is the text written for the match cur
JustWritten == pc = "scan" /\ cur # NoMatch /\ out # <<>> /\ Last(out).start = cur.start

\* the text of a construct holds a docstring: the """ ... """ block of doc_template
HasDocstring(text) == "doc" \in DOMAIN text

\* an enum member line is followed by a docstring
MemberHasDocstring(line) == line.t = "alias" /\ line.doc.kind = "str"

\* C11: a declaration without a doc comment gets no doc text from format_docblock and
\* format_docstring, the text a documenting construct translator writes for it holds
\* no docstring, and neither does the line of an enum member without a comment
C11_NoDocNoBlock ==
    /\ format_docblock(None).kind = "None"
    /\ format_docstring(None).kind = "None"
    /\ (JustWritten /\ cur.doc = None /\ Last(out).translator \in Documenting)
          => ~HasDocstring(Last(out).text)
    /\ \A i \in 1..Len(EnumEmitted) : ~MemberHasDocstring(EnumEmitted[i])

(***************************************************************************)
(* Properties of the blank lines of a formatted doc, checked under SpecDoc *)
(* (C12).                                                                  *)
(***************************************************************************)
\* the doc comment of the match cur has been formatted and written
DocWritten == JustWritten /\ cur.doc # None /\ HasDocstring(Last(out).text)

\* one flag per line: the line is blank
Blanks(lines) == [j \in 1..Len(lines) |-> IsBlank(lines[j])]

\* the longest run of blank lines that starts at line i
RECURSIVE BlankRun(_, _)
BlankRun(lines, i) == IF i <= Len(lines) /\ IsBlank(lines[i]) THEN 1 + BlankRun(lines, i + 1) ELSE 0

\* the lengths of the runs of blank lines
RunLengths(lines) ==
    {BlankRun(lines, i) : i \in {j \in 1..Len(lines) : IsBlank(lines[j]) /\ (j = 1 \/ ~IsBlank(lines[j - 1]))}}

TwoBlankLines(lines) == \E j \in 1..(Len(lines) - 1) : IsBlank(lines[j]) /\ IsBlank(lines[j + 1])

\* every run of blank lines made one blank line
RECURSIVE Squeezed(_, _)
Squeezed(lines, i) ==
    IF i > Len(lines) THEN <<>>
    ELSE IF IsBlank(lines[i]) THEN <<TRUE>> \o Squeezed(lines, i + BlankRun(lines, i))
    ELSE <<FALSE>> \o Squeezed(lines, i + 1)

\* the formatted lines against the lines of the comment between its first and its
\* last prose line
BlankRunsCollapsed(inner, formatted) ==
    /\ ~TwoBlankLines(formatted)
    /\ (2 \notin RunLengths(inner)) => Blanks(formatted) = Squeezed(inner, 1)

\* C12: the formatted doc never holds two blank lines in a row, and when the runs of
\* blank lines between the prose lines of the comment are single blank lines or runs
\* of three and more, each of them is exactly one blank line of the formatted doc
C12_BlankRunsCollapse ==
    DocWritten => BlankRunsCollapsed(Strip(cur.doc), format_docstring(cur.doc).lines)

(***************************************************************************)
(* Properties of the fields of a struct, checked under SpecStruct (C13).   *)
(***************************************************************************)
\* the names a declaration declares: the words a comma follows, and the last word
RECURSIVE DeclaredFrom(_, _)
DeclaredFrom(d, i) ==
    IF i > Len(d) THEN <<>>
    ELSE (IF IsName(d[i]) /\ (i = Len(d) \/ d[i + 1] = ",") THEN <<d[i]>> ELSE <<>>) \o DeclaredFrom(d, i + 1)

DeclaredNames(fields) == Flatten([i \in 1..Len(fields) |-> DeclaredFrom(fields[i], 2)])

\* the field declarations of the struct or typedef struct cur
SourceFields == IF cur.kind = "struct" THEN cur.g.s_body ELSE cur.g.ts_body

\* a struct or typedef struct has been translated and its value type written
StructWritten == JustWritten /\ cur.kind \in {"struct", "typedef_struct"} /\ Last(out).text.t = "struct"

\* the names of the fields of a value type, in the order they are written in
EmittedNames(text) == [k \in 1..Len(text.body) |-> text.body[k][1]]

SnakeNames(names) == [k \in 1..Len(names) |-> snake_case(names[k])]

\* C13: the value type written for a struct or a typedef struct has exactly one field
\* per name its field declarations declare, in the order of the source, a declaration
\* of several names (stars before some of them or not) giving one field per name
C13_OneFieldPerName ==
    StructWritten => EmittedNames(Last(out).text) = SnakeNames(DeclaredNames(SourceFields))

====
